---- MODULE Spec2Model ----
(***************************************************************************)
(* Model of src/main.py, the Streamlit invoice analyser:                   *)
(*   extraer_texto_pdf            pdfplumber with a PyPDF2 fallback        *)
(*   analizar_factura_con_openai  one chat completion, parsed as JSON      *)
(*   procesar_factura             extraction, then analysis, for one file  *)
(*   calcular_resumen_financiero  sums over the coerced DataFrame          *)
(*   main                         the script run: buttons, the batch loop  *)
(*                                and the rendering of the summary         *)
(*                                                                         *)
(* Text is a sequence of one-character strings.  Amounts are float64 in    *)
(* the program; here they are integers counted in half euros (60.50 EUR is *)
(* 121) and every arithmetic result is rounded to FloatBits significant    *)
(* bits, round-half-to-even, as IEEE 754 does with 53 bits.                *)
(***************************************************************************)
EXTENDS Integers, Sequences, FiniteSets, TLC

VARIABLES
    archivos_pdf,          \* main: the uploader's file list (names, in upload order)
    procesar_btn,          \* main: TRUE in the script run the "Procesar" click started
    facturas_procesadas,   \* st.session_state.facturas_procesadas
    resumen,               \* main: the summary this script run has shown
    pc,                    \* position of the script run
    idx,                   \* main: number of files the loop has finished
    progreso,              \* main: numerator last given to progress_bar.progress
    sin_texto,             \* loop positions for which line 174 reported "no text"
    texto_completo,        \* extraer_texto_pdf: the accumulator
    pdf,                   \* extraer_texto_pdf: the pages pdfplumber.open gave,
                           \* until the fallback starts
    rebobinados,           \* extraer_texto_pdf: archivo_pdf.seek(0) calls for this file
    lector,                \* extraer_texto_pdf: what PyPDF2.PdfReader was given and read
    texto,                 \* procesar_factura: value extraer_texto_pdf returned
    peticiones,            \* procesar_factura: calls of analizar_factura_con_openai
    peticion,              \* arguments of the last such call
    respuesta,             \* what the chat completion did for that call
    datos                  \* value procesar_factura returns to main

vars == <<archivos_pdf, procesar_btn, facturas_procesadas, resumen, pc, idx,
          progreso, sin_texto, texto_completo, pdf, rebobinados, lector,
          texto, peticiones, peticion, respuesta, datos>>

(***************************************************************************)
(* Bounds of the model.                                                    *)
(***************************************************************************)
MaxArchivos == 2     \* files in one upload
MaxPaginas == 2      \* pages of one PDF
MaxFacturas == 3     \* records of a record set given to the aggregator
FloatBits == 7       \* significant bits kept by an addition (53 in float64)

Nombres == {"a.pdf", "b.pdf"}

(***************************************************************************)
(* Python strings, as sequences of characters.                             *)
(***************************************************************************)
NL == "\n"
Blancos == {" ", NL}

RECURSIVE LStrip(_)
LStrip(s) ==
    IF s # <<>> /\ Head(s) \in Blancos THEN LStrip(Tail(s)) ELSE s

RECURSIVE RStrip(_)
RStrip(s) ==
    IF s # <<>> /\ s[Len(s)] \in Blancos
    THEN RStrip(SubSeq(s, 1, Len(s) - 1))
    ELSE s

\* str.strip()
Strip(s) == RStrip(LStrip(s))

(***************************************************************************)
(* extraer_texto_pdf.                                                      *)
(* A reader's pages are a sequence of outcomes of pagina.extract_text():   *)
(* an exception, None (or ""), or a text.  An exception raised by          *)
(* pdfplumber.open or PyPDF2.PdfReader itself is the page list <<Lanza>>.  *)
(***************************************************************************)
Lanza == [k |-> "raise", s |-> <<>>]
Nada == [k |-> "text", s |-> <<>>]
Pagina(s) == [k |-> "text", s |-> s]

ResultadosPri == {Nada, Pagina(<<" ">>), Pagina(<<"p">>)}
ResultadosSec == {Nada, Pagina(<<" ">>), Pagina(<<"s">>)}

SeqHasta(S, n) == UNION {[1..m -> S] : m \in 0..n}

\* the page lists of at most MaxPaginas pages: the pages read, and then
\* possibly the exception, which ends the reading
ListasDePaginas(S) ==
    SeqHasta(S, MaxPaginas)
    \cup {Append(ps, Lanza) : ps \in SeqHasta(S, MaxPaginas - 1)}

PaginasPri == ListasDePaginas(ResultadosPri)
PaginasSec == ListasDePaginas(ResultadosSec)

\* the value None and a str, as extraer_texto_pdf returns them
None == [none |-> TRUE, s |-> <<>>]
Str(s) == [none |-> FALSE, s |-> s]
\* Python's truth value of such a result ("if not texto")
Verdadero(r) == ~r.none /\ r.s # <<>>

\* the loop "for pagina in pages: texto = pagina.extract_text();
\* if texto: texto_completo += texto + '\n'", until a page raises
RECURSIVE LeerPaginas(_, _, _)
LeerPaginas(paginas, i, acc) ==
    IF i > Len(paginas) THEN [lanzo |-> FALSE, texto |-> acc]
    ELSE IF paginas[i].k = "raise" THEN [lanzo |-> TRUE, texto |-> acc]
    ELSE LeerPaginas(paginas, i + 1,
                     IF paginas[i].s # <<>>
                     THEN acc \o paginas[i].s \o <<NL>>
                     ELSE acc)

\* the test of line 50 inverted
DevuelvePrincipalInvertido(r) == ~r.lanzo /\ Strip(r.texto) = <<>>

\* lines 50-51: the primary attempt returns its text
DevuelvePrincipal(r) == ~r.lanzo /\ Strip(r.texto) # <<>>

\* lines 63-67: what the function returns after the PyPDF2 attempt
DevuelveSecundario(r) ==
    IF r.lanzo THEN None
    ELSE IF Strip(r.texto) # <<>> THEN Str(r.texto) ELSE None

\* the two readers, before they are opened
SinPdf == [abierto |-> FALSE, paginas |-> <<>>]
SinLector == [usado |-> FALSE, inicio |-> "inicio", paginas |-> <<>>]

\* where the stream's read position can be: at its start, or further on
Posiciones == {"inicio", "otra"}

(***************************************************************************)
(* JSON values and the dict json.loads returns: a function from the keys   *)
(* present to their values.                                                *)
(***************************************************************************)
JNull == [t |-> "null", n |-> 0, s |-> ""]
JNum(x) == [t |-> "num", n |-> x, s |-> ""]
JStr(x) == [t |-> "str", n |-> 0, s |-> x]

\* line 379
CamposNumericos ==
    {"base_imponible", "iva", "porcentaje_iva", "irpf", "porcentaje_irpf", "total"}

\* the object the prompt of lines 85-98 asks for
Objeto(tipo, base, iva, piva, irpf, pirpf, total) ==
    [numero_factura |-> JStr("F-1"), fecha |-> JNull,
     proveedor_cliente |-> JStr("ACME"), tipo |-> tipo,
     base_imponible |-> base, iva |-> iva, porcentaje_iva |-> piva,
     irpf |-> irpf, porcentaje_irpf |-> pirpf, total |-> total,
     conceptos |-> JStr(""), observaciones |-> JStr("")]

\* a dict without key k
Sin(d, k) == [c \in DOMAIN d \ {k} |-> d[c]]

\* d[k] = v
Asignar(d, k, v) == [c \in DOMAIN d \cup {k} |-> IF c = k THEN v ELSE d[c]]

\* what openai_client.chat.completions.create and json.loads can do:
\* raise, return text that is no JSON, return JSON that is no object
\* (item assignment then raises TypeError), or return an object
RLanza == [k |-> "raise", err |-> "Connection error.", d |-> <<>>]
RMalformada == [k |-> "malformed", err |-> "Expecting value", d |-> <<>>]
RNoObjeto == [k |-> "noobj", err |-> "does not support item assignment", d |-> <<>>]
RObjeto(d) == [k |-> "obj", err |-> "", d |-> d]
SinRespuesta == [k |-> "none", err |-> "", d |-> <<>>]

\* the issued invoice and the received invoice of the worked example:
\* 100.00 + 21.00 = 121.00 and 50.00 + 10.50 = 60.50, in half euros
ObjIngreso ==
    Objeto(JStr("ingreso"), JNum(200), JNum(42), JNum(42), JNull, JNull, JNum(242))
ObjGasto ==
    Objeto(JStr("gasto"), JNum(100), JNum(21), JNum(42), JNum(15), JNum(30), JNum(121))
\* an object whose "tipo" the service left null
ObjTipoNulo ==
    Objeto(JNull, JNum(2), JNull, JNull, JNull, JNull, JNum(2))

Respuestas ==
    {RLanza, RMalformada, RNoObjeto,
     RObjeto(ObjIngreso), RObjeto(ObjGasto), RObjeto(ObjTipoNulo)}

\* lines 141-155: the placeholder returned from the except branch
RegistroError(nombre_archivo, err) ==
    [nombre_archivo |-> JStr(nombre_archivo), numero_factura |-> JNull,
     fecha |-> JNull, proveedor_cliente |-> JStr("Error al procesar"),
     tipo |-> JStr("gasto"), base_imponible |-> JNum(0), iva |-> JNum(0),
     porcentaje_iva |-> JNum(0), irpf |-> JNum(0), porcentaje_irpf |-> JNum(0),
     total |-> JNum(0), conceptos |-> JStr(""),
     observaciones |-> JStr("Error: " \o err)]

\* an except clause that names the service's errors only
CapturaSoloServicio(k) == k = "raise"

\* line 138: "except Exception" catches whatever the try block raised
Captura(k) == TRUE

\* analizar_factura_con_openai: the try block of lines 113-136 and its
\* except branch; texto_pdf only goes into the prompt.  lanza: the call
\* ends with an exception instead of a value
analizar_factura_con_openai(texto_pdf, nombre_archivo, r) ==
    IF r.k = "obj"
    THEN [lanza |-> FALSE,
          d |-> Asignar(r.d, "nombre_archivo", JStr(nombre_archivo))]
    ELSE IF Captura(r.k)
    THEN [lanza |-> FALSE, d |-> RegistroError(nombre_archivo, r.err)]
    ELSE [lanza |-> TRUE, d |-> <<>>]

\* procesar_factura's result: None, or the dict
SinDatos == [none |-> TRUE, d |-> <<>>]
Datos(d) == [none |-> FALSE, d |-> d]

(***************************************************************************)
(* float64 arithmetic, scaled: a result keeps FloatBits significant bits   *)
(* and is rounded half to even.                                            *)
(***************************************************************************)
\* the exponent e with x < 2^(FloatBits + e), for x >= 0
RECURSIVE Exponente(_, _)
Exponente(x, e) == IF x < 2 ^ (FloatBits + e) THEN e ELSE Exponente(x, e + 1)

RedondearPos(x) ==
    LET e == Exponente(x, 0)
        u == 2 ^ e
        q == x \div u
        r == x % u
    IN  IF r * 2 > u \/ (r * 2 = u /\ q % 2 = 1) THEN (q + 1) * u ELSE q * u

Redondear(x) == IF x < 0 THEN -RedondearPos(-x) ELSE RedondearPos(x)

FAdd(a, b) == Redondear(a + b)
FSub(a, b) == Redondear(a - b)

(***************************************************************************)
(* The DataFrame of lines 376-381.                                         *)
(***************************************************************************)
\* pd.DataFrame(list of dicts): the columns are the keys some dict has
Columnas(fs) == UNION {DOMAIN fs[i] : i \in 1..Len(fs)}

\* a cell; a key the dict lacks gives a missing value
Celda(f, c) == IF c \in DOMAIN f THEN f[c] ELSE JNull

\* strings pd.to_numeric parses
TextoNumerico == [s \in {"42"} |-> 42]

NaN == [nan |-> TRUE, n |-> 0]
Num(x) == [nan |-> FALSE, n |-> x]

\* pd.to_numeric(..., errors='coerce') on one cell
ToNumeric(v) ==
    IF v.t = "num" THEN Num(Redondear(v.n))
    ELSE IF v.t = "str" /\ v.s \in DOMAIN TextoNumerico THEN Num(TextoNumerico[v.s])
    ELSE NaN

\* .fillna(0.0)
FillNa(x) == IF x.nan THEN 0 ELSE x.n

\* lines 376-381 for a list whose columns all exist
Coaccionar(fs) ==
    [i \in 1..Len(fs) |->
        [c \in Columnas(fs) |->
            IF c \in CamposNumericos
            THEN JNum(FillNa(ToNumeric(Celda(fs[i], c))))
            ELSE Celda(fs[i], c)]]

(***************************************************************************)
(* calcular_resumen_financiero.                                            *)
(***************************************************************************)
\* facturas_df[facturas_df['tipo'] == valor]
Filtrar(df, valor) == SelectSeq(df, LAMBDA f : f["tipo"] = JStr(valor))

\* Series.sum(): the elements added in order, starting from 0
RECURSIVE Suma(_, _)
Suma(df, campo) ==
    IF df = <<>> THEN 0
    ELSE FAdd(Suma(SubSeq(df, 1, Len(df) - 1), campo), df[Len(df)][campo].n)

\* the two totals added
BeneficioSuma(total_ingresos, total_gastos) == FAdd(total_ingresos, total_gastos)

\* line 200
Beneficio(total_ingresos, total_gastos) == FSub(total_ingresos, total_gastos)

\* line 205
BalanceIva(iva_repercutido, iva_soportado) == FSub(iva_repercutido, iva_soportado)

calcular_resumen_financiero(df) ==
    LET ingresos == Filtrar(df, "ingreso")
        gastos == Filtrar(df, "gasto")
        total_ingresos == Suma(ingresos, "total")
        total_gastos == Suma(gastos, "total")
        iva_repercutido == Suma(ingresos, "iva")
        iva_soportado == Suma(gastos, "iva")
    IN  [total_ingresos |-> total_ingresos,
         total_gastos |-> total_gastos,
         beneficio |-> Beneficio(total_ingresos, total_gastos),
         iva_soportado |-> iva_soportado,
         iva_repercutido |-> iva_repercutido,
         balance_iva |-> BalanceIva(iva_repercutido, iva_soportado),
         irpf_ingresos |-> Suma(ingresos, "irpf"),
         irpf_gastos |-> Suma(gastos, "irpf"),
         num_ingresos |-> Len(ingresos),
         num_gastos |-> Len(gastos)]

ResumenCero == calcular_resumen_financiero(<<>>)
SinResumen == [estado |-> "none", r |-> ResumenCero]

\* lines 372-385: nothing is shown for an empty list; a numeric column, or
\* the column 'tipo', that no dict has raises KeyError (lines 381, 194)
Resumir(fs) ==
    IF fs = <<>> THEN SinResumen
    ELSE IF ~(CamposNumericos \cup {"tipo"} \subseteq Columnas(fs))
    THEN [estado |-> "KeyError", r |-> ResumenCero]
    ELSE [estado |-> "ok", r |-> calcular_resumen_financiero(Coaccionar(fs))]

(***************************************************************************)
(* The script run of main().  A click or an upload starts a run; the run   *)
(* goes through the batch loop when the click was "Procesar" and files are *)
(* uploaded, and ends by rendering the summary.                            *)
(***************************************************************************)
Subidas == SeqHasta(Nombres, MaxArchivos)

Init ==
    /\ archivos_pdf = <<>>
    /\ procesar_btn = FALSE
    /\ facturas_procesadas = <<>>
    /\ resumen = SinResumen
    /\ pc = "idle"
    /\ idx = 0
    /\ progreso = 0
    /\ sin_texto = {}
    /\ texto_completo = <<>>
    /\ pdf = SinPdf
    /\ rebobinados = 0
    /\ lector = SinLector
    /\ texto = None
    /\ peticiones = 0
    /\ peticion = [texto |-> <<>>, nombre |-> ""]
    /\ respuesta = SinRespuesta
    /\ datos = SinDatos

locales == <<texto_completo, pdf, rebobinados, lector, texto, peticiones,
             peticion, respuesta, datos>>

\* lines 330-335: the user changes the uploaded files; the script reruns
\* with both buttons unpressed
Subir ==
    /\ pc \in {"idle", "excepcion"}
    /\ \E fs \in Subidas \ {archivos_pdf} : archivos_pdf' = fs
    /\ procesar_btn' = FALSE
    /\ resumen' = SinResumen
    /\ pc' = "render"
    /\ UNCHANGED <<facturas_procesadas, idx, progreso, sin_texto, locales>>

\* lines 344-346: "Limpiar Todo", then st.rerun()
LimpiarTodo ==
    /\ pc \in {"idle", "excepcion"}
    /\ facturas_procesadas' = <<>>
    /\ procesar_btn' = FALSE
    /\ resumen' = SinResumen
    /\ pc' = "render"
    /\ UNCHANGED <<archivos_pdf, idx, progreso, sin_texto, locales>>

\* the click without line 350, which empties the held list
PulsarProcesarSinLimpiar ==
    /\ pc \in {"idle", "excepcion"}
    /\ procesar_btn' = TRUE
    /\ resumen' = SinResumen
    /\ IF archivos_pdf # <<>>
       THEN /\ progreso' = 0
            /\ idx' = 0
            /\ sin_texto' = {}
            /\ pc' = "progreso"
            /\ UNCHANGED facturas_procesadas
       ELSE /\ pc' = "render"
            /\ UNCHANGED <<facturas_procesadas, progreso, idx, sin_texto>>
    /\ UNCHANGED <<archivos_pdf, locales>>

\* lines 341, 349-353: "Procesar Facturas"
PulsarProcesar ==
    /\ pc \in {"idle", "excepcion"}
    /\ procesar_btn' = TRUE
    /\ resumen' = SinResumen
    /\ IF archivos_pdf # <<>>
       THEN /\ facturas_procesadas' = <<>>
            /\ progreso' = 0
            /\ idx' = 0
            /\ sin_texto' = {}
            /\ pc' = "progreso"
       ELSE /\ pc' = "render"
            /\ UNCHANGED <<facturas_procesadas, progreso, idx, sin_texto>>
    /\ UNCHANGED <<archivos_pdf, locales>>

\* line 357, for the file at loop position idx + 1
ActualizarProgreso ==
    /\ pc = "progreso"
    /\ progreso' = idx + 1
    /\ pc' = "principal"
    /\ UNCHANGED <<archivos_pdf, procesar_btn, facturas_procesadas, resumen, idx,
                   sin_texto, locales>>

\* lines 40-53: the pdfplumber attempt
Principal ==
    /\ pc = "principal"
    /\ \E paginas \in PaginasPri :
          LET r == LeerPaginas(paginas, 1, <<>>)
          IN  /\ pdf' = [abierto |-> TRUE, paginas |-> paginas]
              /\ texto_completo' = r.texto
              /\ IF DevuelvePrincipal(r)
                 THEN texto' = Str(r.texto) /\ pc' = "comprobar"
                 ELSE texto' = None /\ pc' = "fallback"
    /\ rebobinados' = 0
    /\ lector' = SinLector
    /\ UNCHANGED <<archivos_pdf, procesar_btn, facturas_procesadas, resumen, idx,
                   progreso, sin_texto, peticiones, peticion, respuesta, datos>>

\* line 57: archivo_pdf.seek(0)
Rebobinar(pos) == "inicio"

\* lines 55-67: the PyPDF2 attempt, on the stream pdfplumber left at pos
Fallback ==
    /\ pc = "fallback"
    /\ \E paginas \in PaginasSec, pos \in Posiciones :
          LET r == LeerPaginas(paginas, 1, texto_completo)
          IN  /\ lector' = [usado |-> TRUE, inicio |-> Rebobinar(pos),
                            paginas |-> paginas]
              /\ texto_completo' = r.texto
              /\ texto' = DevuelveSecundario(r)
    /\ pdf' = SinPdf
    /\ rebobinados' = rebobinados + 1
    /\ pc' = "comprobar"
    /\ UNCHANGED <<archivos_pdf, procesar_btn, facturas_procesadas, resumen, idx,
                   progreso, sin_texto, peticiones, peticion, respuesta, datos>>

\* the analysis called whatever the extraction returned
LlamaAnalisisSiempre(t) == TRUE

\* line 173: procesar_factura goes on to the analysis
LlamaAnalisis(t) == Verdadero(t)

\* lines 171-175: extraer_texto_pdf has returned
Comprobar ==
    /\ pc = "comprobar"
    /\ IF LlamaAnalisis(texto)
       THEN pc' = "analizar" /\ UNCHANGED sin_texto
       ELSE pc' = "anexar" /\ sin_texto' = sin_texto \cup {idx + 1}
    /\ texto_completo' = <<>>
    /\ pdf' = SinPdf
    /\ rebobinados' = 0
    /\ lector' = SinLector
    /\ UNCHANGED <<archivos_pdf, procesar_btn, facturas_procesadas, resumen, idx,
                   progreso, texto, peticiones, peticion, respuesta, datos>>

\* lines 177-180: the call of analizar_factura_con_openai; an exception it
\* let through would end the script run
Analizar ==
    /\ pc = "analizar"
    /\ \E r \in Respuestas :
          LET a == analizar_factura_con_openai(texto.s, archivos_pdf[idx + 1], r)
          IN  /\ respuesta' = r
              /\ IF a.lanza
                 THEN datos' = SinDatos /\ pc' = "excepcion"
                 ELSE datos' = Datos(a.d) /\ pc' = "anexar"
    /\ peticion' = [texto |-> texto.s, nombre |-> archivos_pdf[idx + 1]]
    /\ peticiones' = peticiones + 1
    /\ UNCHANGED <<archivos_pdf, procesar_btn, facturas_procesadas, resumen, idx,
                   progreso, sin_texto, texto_completo, pdf, rebobinados,
                   lector, texto>>

\* line 362: "if datos_factura", the truth value of None or of a dict
SeAnexa(d) == ~d.none /\ DOMAIN d.d # {}

\* lines 360-366: procesar_factura has returned; the loop goes on
Anexar ==
    /\ pc = "anexar"
    /\ facturas_procesadas' =
          IF SeAnexa(datos) THEN Append(facturas_procesadas, datos.d)
          ELSE facturas_procesadas
    /\ idx' = idx + 1
    /\ pc' = IF idx + 1 = Len(archivos_pdf) THEN "render" ELSE "progreso"
    /\ texto' = None
    /\ peticiones' = 0
    /\ peticion' = [texto |-> <<>>, nombre |-> ""]
    /\ respuesta' = SinRespuesta
    /\ datos' = SinDatos
    /\ UNCHANGED <<archivos_pdf, procesar_btn, resumen, progreso, sin_texto,
                   texto_completo, pdf, rebobinados, lector>>

\* lines 368-385: the bar is emptied after a batch, the summary is shown
Render ==
    /\ pc = "render"
    /\ resumen' = Resumir(facturas_procesadas)
    /\ progreso' = 0
    /\ pc' = "idle"
    /\ UNCHANGED <<archivos_pdf, procesar_btn, facturas_procesadas, idx,
                   sin_texto, locales>>

Next ==
    \/ Subir
    \/ LimpiarTodo
    \/ PulsarProcesar
    \/ ActualizarProgreso
    \/ Principal
    \/ Fallback
    \/ Comprobar
    \/ Analizar
    \/ Anexar
    \/ Render

Spec == Init /\ [][Next]_vars

(***************************************************************************)
(* The aggregator on its own: a session that holds a record set a batch    *)
(* has just stored, about to be rendered.                                  *)
(***************************************************************************)
Guardado(d) == Asignar(d, "nombre_archivo", JStr("a.pdf"))

Muestras ==
    {Guardado(ObjIngreso),
     Guardado(ObjGasto),
     Guardado(ObjTipoNulo),
     \* amounts large and small enough for an addition to round
     Guardado(Objeto(JStr("ingreso"), JNum(128), JNum(128), JNull, JNum(1), JNull,
                     JNum(128))),
     \* a number given as a string, and a string that is no number
     Guardado(Objeto(JStr("ingreso"), JNum(1), JNum(1), JNull, JStr("42"),
                     JStr("n/a"), JNum(1))),
     \* keys the service left out
     Guardado(Sin(ObjGasto, "total")),
     Guardado(Sin(ObjIngreso, "tipo")),
     RegistroError("a.pdf", "Connection error.")}

InitAgg ==
    /\ facturas_procesadas \in SeqHasta(Muestras, MaxFacturas) \ {<<>>}
    /\ archivos_pdf = [i \in 1..Len(facturas_procesadas) |-> "a.pdf"]
    /\ procesar_btn = TRUE
    /\ resumen = SinResumen
    /\ pc = "render"
    /\ idx = Len(facturas_procesadas)
    /\ progreso = Len(facturas_procesadas)
    /\ sin_texto = {}
    /\ texto_completo = <<>>
    /\ pdf = SinPdf
    /\ rebobinados = 0
    /\ lector = SinLector
    /\ texto = None
    /\ peticiones = 0
    /\ peticion = [texto |-> <<>>, nombre |-> ""]
    /\ respuesta = SinRespuesta
    /\ datos = SinDatos

NextAgg == Render

SpecAgg == InitAgg /\ [][NextAgg]_vars

(***************************************************************************)
(* Properties.                                                             *)
(***************************************************************************)
\* no page of the list raised
NingunaLanza(paginas) == \A i \in 1..Len(paginas) : paginas[i].k # "raise"

\* the texts of the pages that have one, each followed by a newline
RECURSIVE TextoDePaginas(_)
TextoDePaginas(paginas) ==
    IF paginas = <<>> THEN <<>>
    ELSE (IF Head(paginas).s # <<>> THEN Head(paginas).s \o <<NL>> ELSE <<>>)
         \o TextoDePaginas(Tail(paginas))

\* the text is not empty once trimmed
TieneTexto(s) == \E i \in 1..Len(s) : s[i] \notin Blancos

PrimarioLogrado ==
    /\ pdf.abierto
    /\ NingunaLanza(pdf.paginas)
    /\ TieneTexto(TextoDePaginas(pdf.paginas))

\* C1: when pdfplumber reads every page without raising and the trimmed
\* concatenation of the page texts is not empty, extraer_texto_pdf returns
\* that text at once: PyPDF2 is not invoked and the stream is not rewound.
C1_PrimarioSinSecundario ==
    PrimarioLogrado =>
        /\ pc # "fallback"
        /\ ~lector.usado
        /\ rebobinados = 0
        /\ pc = "comprobar" => texto = Str(TextoDePaginas(pdf.paginas))

C1_Witness ==
    /\ pc = "comprobar"
    /\ PrimarioLogrado
    /\ Len(pdf.paginas) = 2
    /\ texto = Str(<<"p", NL, "p", NL>>)

\* C2: on the fallback path, if PyPDF2 raises or its trimmed text is empty,
\* extraer_texto_pdf returns None, also when pdfplumber had read some page
\* text before raising, and makes no further attempt.
C2_SecundarioFallaDevuelveNone ==
    (/\ pc = "comprobar"
     /\ lector.usado
     /\ \/ ~NingunaLanza(lector.paginas)
        \/ ~TieneTexto(TextoDePaginas(lector.paginas)))
    => texto = None /\ rebobinados = 1

\* C3: on the fallback path the stream is at its start when PyPDF2 reads it,
\* and if PyPDF2 yields text that is not empty once trimmed, the text returned
\* is exactly PyPDF2's page concatenation, with nothing of the first attempt.
C3_SecundarioDevuelveSoloSuTexto ==
    (pc = "comprobar" /\ lector.usado) =>
        /\ lector.inicio = "inicio"
        /\ (NingunaLanza(lector.paginas)
            /\ TieneTexto(TextoDePaginas(lector.paginas)))
           => texto = Str(TextoDePaginas(lector.paginas))

\* C4: procesar_factura returns None without any call of the field extractor
\* when the extraction failed; otherwise it calls it exactly once, with the
\* extracted text and the file's name, and returns what it returned.
C4_ProcesarFactura ==
    /\ pc = "analizar" => ~texto.none
    /\ pc = "anexar" =>
        IF texto.none
        THEN peticiones = 0 /\ datos = SinDatos
        ELSE /\ peticiones = 1
             /\ peticion = [texto |-> texto.s, nombre |-> archivos_pdf[idx + 1]]
             /\ datos = Datos(analizar_factura_con_openai(
                                 texto.s, archivos_pdf[idx + 1], respuesta).d)

C4_Witness ==
    /\ pc = "anexar"
    /\ texto.none
    /\ peticiones = 0
    /\ datos = SinDatos
    /\ idx + 1 \in sin_texto

\* a held record that is the placeholder of the except branch
EsRegistroError(f) == Celda(f, "proveedor_cliente") = JStr("Error al procesar")

NumRegistrosError ==
    Cardinality({i \in 1..Len(facturas_procesadas) :
                    EsRegistroError(facturas_procesadas[i])})

\* C5: analizar_factura_con_openai lets no error through: when the call or
\* the parsing of its answer fails it returns a record with the file's name,
\* tipo = gasto, the six numeric fields 0.0 and the error in observaciones;
\* the aggregator counts such a record in num_gastos.
C5_ErrorDaRegistroDegradado ==
    /\ pc # "excepcion"
    /\ (pc = "anexar" /\ peticiones > 0 /\ respuesta.k # "obj") =>
        /\ ~datos.none
        /\ datos.d["nombre_archivo"] = JStr(archivos_pdf[idx + 1])
        /\ datos.d["tipo"] = JStr("gasto")
        /\ \A c \in CamposNumericos : datos.d[c] = JNum(0)
        /\ datos.d["observaciones"] = JStr("Error: " \o respuesta.err)
    /\ (pc = "idle" /\ NumRegistrosError > 0) =>
        /\ resumen.estado = "ok"
        /\ resumen.r.num_gastos >= NumRegistrosError

C5_Witness ==
    /\ pc = "idle"
    /\ Len(facturas_procesadas) = 2
    /\ NumRegistrosError = 2
    /\ resumen.estado = "ok"
    /\ resumen.r.num_gastos = 2
    /\ resumen.r.total_gastos = 0

\* C6: every record analizar_factura_con_openai returns has tipo exactly
\* ingreso or gasto, so the aggregator's two partitions cover the record set:
\* num_ingresos + num_gastos is the number of records.
C6_TipoSiempreDefinido ==
    /\ (pc = "anexar" /\ ~datos.none) =>
        Celda(datos.d, "tipo") \in {JStr("ingreso"), JStr("gasto")}
    /\ resumen.estado = "ok" =>
        resumen.r.num_ingresos + resumen.r.num_gastos = Len(facturas_procesadas)

\* the amount a record contributes: its number, 0 when absent or no number
ValorEsperado(f, c) ==
    IF c \notin DOMAIN f THEN 0
    ELSE IF f[c].t = "num" THEN f[c].n
    ELSE IF f[c].t = "str" /\ f[c].s \in DOMAIN TextoNumerico
    THEN TextoNumerico[f[c].s]
    ELSE 0

\* the sum of field c over the records of the given tipo, in list order
RECURSIVE SumaEsperada(_, _, _, _, _)
SumaEsperada(fs, c, tipo, i, acc) ==
    IF i > Len(fs) THEN acc
    ELSE SumaEsperada(fs, c, tipo, i + 1,
                      IF Celda(fs[i], "tipo") = JStr(tipo)
                      THEN FAdd(acc, ValorEsperado(fs[i], c))
                      ELSE acc)

\* the two records of the worked example: 121.00 / 21.00 and 60.50 / 10.50
Ejemplo == <<Guardado(ObjIngreso), Guardado(ObjGasto)>>

Permutada(fs, p) == [i \in 1..Len(fs) |-> fs[p[i]]]

\* C8: the summary is the same for every order of the record list.
C8_OrdenIndiferente ==
    resumen.estado = "ok" =>
        \A p \in Permutations(1..Len(facturas_procesadas)) :
            Resumir(Permutada(facturas_procesadas, p)) = resumen

\* the names of the files up to loop position n that line 174 did not report
RECURSIVE Extraidos(_)
Extraidos(n) ==
    IF n = 0 THEN <<>>
    ELSE IF n \in sin_texto THEN Extraidos(n - 1)
    ELSE Append(Extraidos(n - 1), JStr(archivos_pdf[n]))

NombresGuardados ==
    [i \in 1..Len(facturas_procesadas) |->
        Celda(facturas_procesadas[i], "nombre_archivo")]

\* C9: in and after a batch run the held list has exactly one record for each
\* file of this run whose extraction succeeded, in upload order, none for a
\* file whose extraction failed and none of an earlier run; the run goes
\* through every file.
C9_UnRegistroPorArchivoExtraido ==
    (procesar_btn /\ archivos_pdf # <<>>) =>
        /\ NombresGuardados = Extraidos(idx)
        /\ pc \in {"render", "idle"} => idx = Len(archivos_pdf)

C9_Witness ==
    /\ pc = "idle"
    /\ procesar_btn
    /\ archivos_pdf = <<"a.pdf", "b.pdf">>
    /\ sin_texto = {1}
    /\ NombresGuardados = <<JStr("b.pdf")>>
    /\ EsRegistroError(facturas_procesadas[1])

\* C10: the batch is sequential and the progress update for a file is made
\* only after that file's processing has completed: while procesar_factura
\* works on the file at position idx + 1 the bar has reported idx files at
\* most.
C10_ProgresoTrasCompletar ==
    /\ pc \in {"progreso", "principal", "fallback", "comprobar"} =>
        peticiones = 0 /\ datos = SinDatos
    /\ pc = "analizar" => ~texto.none /\ peticiones = 0
    /\ pc \in {"principal", "fallback", "comprobar", "analizar", "anexar"} =>
        progreso <= idx
====
